---- MODULE Spec2Model ----
(***************************************************************************)
(* rSqoop (src/rsqoop_runner/module.py): staging of tables from a source   *)
(* database through an object store into a warehouse.                      *)
(*                                                                         *)
(* Conventions of the model                                                *)
(*   - a Python str is a sequence of one-character strings, so that        *)
(*     s[0] and str.lower() can be computed: 'Id' is <<"I","d">>;          *)
(*   - a Python value that may be None is a sequence of length 0 or 1:     *)
(*     None is <<>>, the value v is <<v>>;                                 *)
(*   - a select_fields entry is [py |-> "str", s |-> name, t |-> <<>>]     *)
(*     for a plain name and [py |-> "tuple", s |-> <<>>, t |-> <<s1, s2>>] *)
(*     for a tuple;                                                        *)
(*   - a catalog row (field) is [name, type, len, prec, scale], the five   *)
(*     columns field[0]..field[4] of get_source_table_schema.              *)
(***************************************************************************)
EXTENDS Integers, Sequences, FiniteSets, TLC

None == <<>>
Some(v) == <<v>>

(***************************************************************************)
(* Strings                                                                 *)
(***************************************************************************)
\* str.lower() on one character over the alphabet the model uses
LowerChar(c) ==
    CASE c = "A" -> "a"
      [] c = "B" -> "b"
      [] c = "D" -> "d"
      [] c = "I" -> "i"
      [] c = "N" -> "n"
      [] c = "P" -> "p"
      [] OTHER -> c

\* str.lower()
Lower(s) == [k \in 1..Len(s) |-> LowerChar(s[k])]

(***************************************************************************)
(* get_field_values / get_fields / get_select_fields                       *)
(***************************************************************************)
\* i[0] of a select_fields entry: the first CHARACTER of a plain str, the
\* first element of a tuple
EntryFirst(i) == IF i.py = "str" THEN <<i.s[1]>> ELSE i.t[1]

\* the condition of the comprehension of get_field_values (line 121)
EntrySelected(i, key_to_find) ==
    \/ (i.py = "str" /\ i.s = key_to_find)
    \/ Lower(EntryFirst(i)) = Lower(key_to_find)

\* get_field_values(iterables, key_to_find)
get_field_values(iterables, key_to_find) ==
    SelectSeq(iterables, LAMBDA i : EntrySelected(i, key_to_find))

\* the name get_fields gives a kept column (lines 106-109)
SelectedName(selected_field) ==
    IF selected_field[1].py = "tuple"
    THEN selected_field[1].t[2]
    ELSE selected_field[1].s

RECURSIVE GetFieldsLoop(_, _)
GetFieldsLoop(select_fields, schema) ==
    IF schema = <<>> THEN <<>>
    ELSE LET field == Head(schema)
             selected_field == get_field_values(select_fields, Lower(field.name))
             rest == GetFieldsLoop(select_fields, Tail(schema))
         IN IF selected_field = <<>>
            THEN rest
            ELSE <<[field EXCEPT !.name = SelectedName(selected_field)]>> \o rest

\* get_fields(select_fields, schema); an empty or None select_fields keeps
\* the whole schema
get_fields(select_fields, schema) ==
    IF select_fields # <<>>
    THEN GetFieldsLoop(select_fields, schema)
    ELSE schema

RECURSIVE GetSelectFieldsLoop(_, _)
GetSelectFieldsLoop(schema, select_fields) ==
    IF schema = <<>> THEN <<>>
    ELSE LET field == Head(schema)
             selected_field == get_field_values(select_fields, Lower(field.name))
             rest == GetSelectFieldsLoop(Tail(schema), select_fields)
         IN IF selected_field = <<>> THEN rest ELSE <<field.name>> \o rest

\* a variant of the projection: every column of the schema, whatever the
\* selection
get_all_fields(schema, select_fields) ==
    [k \in 1..Len(schema) |-> schema[k].name]

\* get_select_fields(schema, select_fields): the names joined by ','
\* (kept as the list of names)
get_select_fields(schema, select_fields) ==
    GetSelectFieldsLoop(schema, select_fields)

(***************************************************************************)
(* The type translation of clone_staging_table (lines 173-254)             *)
(***************************************************************************)
rs_date_types == {"timestamp with time zone", "time without time zone",
                  "datetime", "smalldatetime", "date", "datetime2"}
rs_char_types == {"timestamp", "char", "varchar", "character", "nchar", "bpchar",
                  "character varying", "nvarchar", "text"}
rs_num_types == {"decimal", "numeric"}
rs_smallint_types == {"bit", "tinyint", "smallint", "int2"}
rs_int_types == {"int", "integer", "int4"}
rs_bigint_types == {"bigint", "int8"}
rs_other_types == {"real", "double precision", "boolean", "float4", "float8",
                   "float", "date", "bool", "timestamp without time zone"}
rs_reserved_names == {<<"p","a","r","t","i","t","i","o","n">>}

MaxVarcharSize == 65535
DefaultVarcharSize == 2000
TimestampCharSize == 8
UuidSize == 50
UniqueidentifierSize == 36

\* a target type clause: the type name and its (optional) arguments
DataType(base, p1, p2) == [base |-> base, p1 |-> p1, p2 |-> p2]

\* lines 207-210
ColumnName(field) ==
    IF Lower(field.name) \notin rs_reserved_names
    THEN field.name
    ELSE <<"v", "_">> \o field.name

\* lines 224-231: int(field[2]) raises TypeError on None
CharSizeRaises(field) == field.type # "timestamp" /\ field.len = None

CharSize(field) ==
    IF field.type = "timestamp" THEN TimestampCharSize
    ELSE IF field.len[1] > MaxVarcharSize THEN MaxVarcharSize
    ELSE IF field.len[1] < 0 THEN DefaultVarcharSize
    ELSE field.len[1]

\* lines 218-233
CharDataType(field) ==
    LET field_type == IF field.type = "text" \/ field.type = "timestamp"
                      THEN "varchar" ELSE field.type
    IN IF field.type = "timestamp" \/ field.len # None
       THEN DataType(field_type, Some(CharSize(field)), None)
       ELSE DataType("varchar", Some(DefaultVarcharSize), None)

\* the if/elif chain of lines 213-252; raised = TRUE stands for the TypeError
\* of int(None), which leaves the loop (and clone_staging_table)
TranslateColumn(field) ==
    LET ok(dt) == [raised |-> FALSE, column_name |-> ColumnName(field), data_type |-> dt]
    IN IF field.type \in rs_date_types THEN ok(DataType("timestamp", None, None))
       ELSE IF field.type = "uuid" THEN ok(DataType("varchar", Some(UuidSize), None))
       ELSE IF field.type \in rs_char_types THEN
            IF CharSizeRaises(field)
            THEN [raised |-> TRUE, column_name |-> ColumnName(field),
                  data_type |-> DataType("TypeError", None, None)]
            ELSE ok(CharDataType(field))
       ELSE IF field.type \in rs_smallint_types THEN ok(DataType("smallint", None, None))
       ELSE IF field.type \in rs_int_types THEN ok(DataType("integer", None, None))
       ELSE IF field.type \in rs_bigint_types THEN ok(DataType("bigint", None, None))
       ELSE IF field.type \in rs_num_types THEN
            IF field.prec # None
            THEN ok(DataType(field.type, field.prec, field.scale))
            ELSE ok(DataType(field.type, None, None))
       ELSE IF field.type \in rs_other_types THEN ok(DataType(field.type, None, None))
       ELSE IF field.type = "uniqueidentifier"
            THEN ok(DataType("varchar", Some(UniqueidentifierSize), None))
       ELSE ok(DataType("varchar", Some(DefaultVarcharSize), None))

(***************************************************************************)
(* Integers of any size and IEEE-754 doubles                               *)
(*                                                                         *)
(* Python ints are unbounded and float() is a binary64.  A natural number  *)
(* is a little-endian sequence of NLimbs limbs in base LimbBase, so that   *)
(* counts beyond 2^31 and the rounding of float() can be computed.         *)
(***************************************************************************)
LimbBase == 4096
LimbBits == 12
NLimbs == 11
Limbs == 1..NLimbs

RECURSIVE LimbOf(_, _)
LimbOf(n, k) == IF k = 1 THEN n % LimbBase ELSE LimbOf(n \div LimbBase, k - 1)

\* the natural number n (n < 2^31) as limbs
Big(n) == [k \in Limbs |-> LimbOf(n, k)]

\* carry propagation over per-limb values that may exceed LimbBase
RECURSIVE CarryFrom(_, _, _)
CarryFrom(cols, k, carry) ==
    IF k > NLimbs THEN <<>>
    ELSE LET v == cols[k] + carry
         IN <<v % LimbBase>> \o CarryFrom(cols, k + 1, v \div LimbBase)

BigAdd(a, b) == CarryFrom([k \in Limbs |-> a[k] + b[k]], 1, 0)

RECURSIVE ColumnSum(_, _, _, _)
ColumnSum(a, b, k, j) ==
    IF j > k THEN 0
    ELSE a[j] * b[k + 1 - j] + ColumnSum(a, b, k, j + 1)

\* schoolbook product (the operands used stay below LimbBase^NLimbs)
BigMul(a, b) == CarryFrom([k \in Limbs |-> ColumnSum(a, b, k, 1)], 1, 0)

RECURSIVE BigCmpFrom(_, _, _)
BigCmpFrom(a, b, k) ==
    IF k = 0 THEN 0
    ELSE IF a[k] > b[k] THEN 1
    ELSE IF a[k] < b[k] THEN -1
    ELSE BigCmpFrom(a, b, k - 1)

\* -1, 0, 1 as a < b, a = b, a > b
BigCmp(a, b) == BigCmpFrom(a, b, NLimbs)

RECURSIVE BorrowFrom(_, _, _, _)
BorrowFrom(a, b, k, borrow) ==
    IF k > NLimbs THEN <<>>
    ELSE LET v == a[k] - b[k] - borrow
         IN IF v < 0
            THEN <<v + LimbBase>> \o BorrowFrom(a, b, k + 1, 1)
            ELSE <<v>> \o BorrowFrom(a, b, k + 1, 0)

\* a - b for a >= b
BigSub(a, b) == BorrowFrom(a, b, 1, 0)

RECURSIVE Pow2(_)
Pow2(e) == IF e = 0 THEN 1 ELSE 2 * Pow2(e - 1)

\* 2^e as limbs
BigPow2(e) == [k \in Limbs |-> IF k = (e \div LimbBits) + 1 THEN Pow2(e % LimbBits) ELSE 0]

\* number of significant bits
RECURSIVE BitLenInt(_)
BitLenInt(n) == IF n = 0 THEN 0 ELSE 1 + BitLenInt(n \div 2)

RECURSIVE TopLimb(_, _)
TopLimb(a, k) == IF k = 0 THEN 0 ELSE IF a[k] # 0 THEN k ELSE TopLimb(a, k - 1)

BigBitLen(a) ==
    LET t == TopLimb(a, NLimbs)
    IN IF t = 0 THEN 0 ELSE LimbBits * (t - 1) + BitLenInt(a[t])

DoubleMantissaBits == 53

\* float(n) for a natural n < 2^64: the nearest integer with at most 53
\* significant bits, ties to the even mantissa (PyLong_AsDouble)
ToDouble(a) ==
    LET s == BigBitLen(a) - DoubleMantissaBits
    IN IF s <= 0 THEN a
       ELSE LET u == Pow2(s)
                lo == a[1] % u
                odd == (a[1] \div u) % 2 = 1
                down == BigSub(a, Big(lo))
                up == BigAdd(down, Big(u))
            IN IF 2 * lo < u THEN down
               ELSE IF 2 * lo > u THEN up
               ELSE IF odd THEN up ELSE down

(***************************************************************************)
(* check_tgt_count (lines 509-533)                                         *)
(***************************************************************************)
\* pct_threshold = 0.01 is the double 5764607523034235 * 2^-59.  A correctly
\* rounded quotient x/y of two positive doubles is greater than it exactly
\* when x/y is at least the midpoint to the next double,
\* (2 * 5764607523034235 + 1) * 2^-60 (the mantissa is odd, so the tie rounds
\* up).
PctThresholdMantissa == BigAdd(BigMul(Big(5764607), Big(1000000000)), Big(523034235))
PctThresholdExponent == 59
PctThresholdMidpoint == BigAdd(BigMul(PctThresholdMantissa, Big(2)), Big(1))

\* a variant of the comparison: float(x)/y >= pct_threshold
QuotientReachesThreshold(x, y) ==
    BigCmp(BigMul(ToDouble(x), BigPow2(PctThresholdExponent + 1)),
           BigMul(BigSub(PctThresholdMidpoint, Big(2)), ToDouble(y))) > 0

\* line 526: float(x)/y > pct_threshold for naturals x > 0, y > 0
QuotientExceedsThreshold(x, y) ==
    BigCmp(BigMul(ToDouble(x), BigPow2(PctThresholdExponent + 1)),
           BigMul(PctThresholdMidpoint, ToDouble(y))) >= 0

\* lines 523-526: TRUE when check_tgt_count raises "failed count check".
\* diff = src_cnt - tgt_cnt; a diff <= 0 gives pct_diff <= 0, never above the
\* threshold.
CountCheckRaises(src_cnt, tgt_cnt) ==
    /\ BigCmp(src_cnt, tgt_cnt) > 0
    /\ QuotientExceedsThreshold(BigSub(src_cnt, tgt_cnt),
                                IF src_cnt # Big(0) THEN src_cnt ELSE Big(1))

\* check_tgt_count on counts below 2^31 (the pipeline's tables)
check_tgt_count_raises(src_cnt, tgt_cnt) == CountCheckRaises(Big(src_cnt), Big(tgt_cnt))

(***************************************************************************)
(* Rows                                                                    *)
(*                                                                         *)
(* A source cell is a Python value [t |-> type, s |-> text, n |-> number]; *)
(* a staged cell (one field of the delimited file) is the text written,    *)
(* [s |-> text, n |-> number] (n carries a clock reading inside the text); *)
(* a warehouse cell is None for NULL or Some(staged cell).                 *)
(***************************************************************************)
PyNone == [t |-> "NoneType", s |-> "None", n |-> 0]
PyStr(x) == [t |-> "str", s |-> x, n |-> 0]
PyBool(b) == [t |-> "bool", s |-> IF b THEN "True" ELSE "False", n |-> 0]

Text(x) == [s |-> x, n |-> 0]
Stamp(x, k) == [s |-> x, n |-> k]

\* str.replace of '\n', '\t', '\r', '\v' by ' ' on the texts the model uses
ReplaceWhitespace(x) ==
    CASE x = "a\tb" -> "a b"
      [] x = "a\nb" -> "a b"
      [] OTHER -> x

\* lines 342-346: a bool becomes int(s), anything else str(s) without
\* line breaks and tabs (str(None) is 'None')
NormalizeCell(c) ==
    IF c.t = "bool"
    THEN Text(IF c.s = "True" THEN "1" ELSE "0")
    ELSE Text(ReplaceWhitespace(c.s))

\* lines 331-336: list(self.meta_fields.values()), in the order of line 33-38
MetaValues(m, source_system_cd) ==
    << Text(source_system_cd),
       Stamp("dts", m.etl_date),
       Stamp("dts", m.etl_date),
       Stamp("run", m.etl_run_id) >>

\* line 347: one line of the staged file
StagedRow(row, meta_values) ==
    [k \in 1..Len(row) |-> NormalizeCell(row[k])] \o meta_values

\* COPY ... NULL AS 'None': a field equal to the null token loads as NULL
NullToken == "None"
LoadCell(c) == IF c.s = NullToken THEN None ELSE Some(c)
LoadRow(r) == [k \in 1..Len(r) |-> LoadCell(r[k])]
LoadRows(rs) == [k \in 1..Len(rs) |-> LoadRow(rs[k])]

(***************************************************************************)
(* Warehouse tables and the load statements of s3_to_redshift              *)
(*                                                                         *)
(* A table is [exists, cols, rows]; a column is [column_name, data_type,   *)
(* src] where src is the source column it was created from (None for a     *)
(* lineage column).                                                        *)
(***************************************************************************)
NoTable == [exists |-> FALSE, cols |-> <<>>, rows |-> <<>>]

\* the position of the column named x (the warehouse folds identifiers to
\* lower case), 0 when the table has none
RECURSIVE ColumnIndexFrom(_, _, _)
ColumnIndexFrom(cols, x, k) ==
    IF k > Len(cols) THEN 0
    ELSE IF Lower(cols[k].column_name) = Lower(x) THEN k
    ELSE ColumnIndexFrom(cols, x, k + 1)
ColumnIndex(cols, x) == ColumnIndexFrom(cols, x, 1)

\* tmp.x = tgt.x in SQL: true only when both are non-NULL and equal
SqlEq(a, b) == a # None /\ b # None /\ a = b

\* a variant of the join condition: ' or '.join(...)
UpdWhereAnyKey(cols, key_fields, tmp_row, tgt_row) ==
    \E k \in 1..Len(key_fields) :
        SqlEq(tmp_row[ColumnIndex(cols, key_fields[k])],
              tgt_row[ColumnIndex(cols, key_fields[k])])

\* line 458: ' and '.join(tmp.x = tgt.x for x in key_fields)
UpdWhere(cols, key_fields, tmp_row, tgt_row) ==
    \A k \in 1..Len(key_fields) :
        SqlEq(tmp_row[ColumnIndex(cols, key_fields[k])],
              tgt_row[ColumnIndex(cols, key_fields[k])])

\* COPY fails (maxerror 0) when the table or the staged file is missing or a
\* line has not one field per column
CopyFails(tbl, staged) ==
    \/ ~tbl.exists
    \/ staged = None
    \/ \E k \in 1..Len(staged[1]) : Len(staged[1][k]) # Len(tbl.cols)

\* a variant of the full refresh: COPY tgt from s3 without the delete
FullRefreshNoDelete(tbl, staged) ==
    [tbl EXCEPT !.rows = tbl.rows \o LoadRows(staged[1])]

\* lines 413-434: delete from tgt; COPY tgt from s3
FullRefresh(tbl, staged) ==
    [tbl EXCEPT !.rows = LoadRows(staged[1])]

\* lines 436-467: tmp like tgt; COPY tmp from s3; delete from tgt where
\* exists (select 1 from tmp where upd_where); insert into tgt select * from tmp
IncrementalMerge(tbl, staged, key_fields) ==
    LET tmp == LoadRows(staged[1])
        kept == SelectSeq(tbl.rows, LAMBDA r :
                    ~\E k \in 1..Len(tmp) : UpdWhere(tbl.cols, key_fields, tmp[k], r))
    IN [tbl EXCEPT !.rows = kept \o tmp]

\* the statement names a key field the table has no column for
KeyFieldMissing(tbl, key_fields) ==
    \E k \in 1..Len(key_fields) : ColumnIndex(tbl.cols, key_fields[k]) = 0

\* the SQL of line 479 cannot run on this table and file
LoadSqlFails(tbl, staged, incremental, key_fields) ==
    \/ CopyFails(tbl, staged)
    \/ (incremental /\ KeyFieldMissing(tbl, key_fields))

\* the table after the SQL of line 479 has run
LoadSql(tbl, staged, incremental, key_fields) ==
    IF incremental
    THEN IncrementalMerge(tbl, staged, key_fields)
    ELSE FullRefresh(tbl, staged)

\* What the warehouse does to one call of s3_to_redshift: "ok"; "load_fails"
\* (exec_sql of line 485 raises); "grant_fails" (exec_sql of line 579 raises
\* and the open batch is lost); "grant_fails_kept" (the same, the load having
\* been applied).
LoadOutcomes == {"ok", "load_fails", "grant_fails", "grant_fails_kept"}

Outcome(raised, tbl, events) == [raised |-> raised, table |-> tbl, events |-> events]

\* a variant of the except block: lines 486-488 without the raise of line 489
LoadFailureSwallowed(tbl) ==
    Outcome("none", tbl,
            <<"load_sql_failed", "log_error", "log_offending_sql", "grant", "grant_commit", "commit">>)

\* lines 486-489
LoadFailure(tbl) ==
    Outcome("load", tbl, <<"load_sql_failed", "log_error", "log_offending_sql">>)

\* s3_to_redshift (lines 370-495): the exception raised ("none" when it
\* returns), the target table afterwards and the warehouse calls made
s3_to_redshift(tbl, staged, incremental, key_fields, env) ==
    IF incremental /\ (key_fields = None \/ key_fields = Some(<<>>))
    THEN Outcome("config", tbl, <<>>)
    ELSE LET kf == IF key_fields = None THEN <<>> ELSE key_fields[1]
         IN IF env = "load_fails" \/ LoadSqlFails(tbl, staged, incremental, kf)
            THEN LoadFailure(tbl)
            ELSE LET loaded == LoadSql(tbl, staged, incremental, kf)
                 IN CASE env = "grant_fails" ->
                            Outcome("grant", tbl, <<"load_sql", "grant_failed">>)
                      [] env = "grant_fails_kept" ->
                            Outcome("grant", loaded, <<"load_sql", "grant_failed">>)
                      [] OTHER ->
                            Outcome("none", loaded,
                                    <<"load_sql", "grant", "grant_commit", "commit">>)

(***************************************************************************)
(* State                                                                   *)
(***************************************************************************)
VARIABLES
    \* check_tgt_count called on its own: the arguments and the outcome
    in_src_cnt, in_tgt_cnt, out_count_check,
    \* the type translation applied to one catalog row
    in_field, out_column,
    \* get_fields called on its own
    in_select_fields, in_schema, out_fields,
    \* s3_to_redshift called on its own with incremental=True: the target
    \* table, the staged file, key_fields, the exception raised, the number
    \* of calls made, the table before the last call and the rows after the
    \* first call
    m_table, m_staged, m_key_fields, m_raised, m_applied, m_before, m_first,
    \* the command line of __main__: incremental, key_fields, select_fields
    args,
    \* the source database and the warehouse, one table per batch position
    srcDb, tgtDb,
    \* the object store (the staged file per target table) and the local
    \* temp/ directory (the targets that have a file there)
    s3, temp,
    \* self.meta_fields / self.etl_date of the running rSqoop, the wall
    \* clock, and the number of times the program has been started
    meta, clock, run,
    \* the position in the loop of __main__ and in stage_to_redshift
    i, pc,
    \* stage_to_redshift's locals: what clone returned, src_cnt
    clone_ret, src_cnt_captured,
    \* the remote calls and log lines made for the current table, in order
    calls,
    \* the exception that ended the program ("none" while it runs)
    exc,
    \* per table, the target rows when stage_to_redshift last returned
    prev

countVars == <<in_src_cnt, in_tgt_cnt, out_count_check>>
translateVars == <<in_field, out_column>>
fieldsVars == <<in_select_fields, in_schema, out_fields>>
mergeVars == <<m_table, m_staged, m_key_fields, m_raised, m_applied, m_before, m_first>>
pipeVars == <<args, srcDb, tgtDb, s3, temp, meta, clock, run, i, pc, clone_ret,
              src_cnt_captured, calls, exc, prev>>
vars == <<countVars, translateVars, fieldsVars, mergeVars, pipeVars>>

CountIdle == in_src_cnt = Big(0) /\ in_tgt_cnt = Big(0) /\ out_count_check = "idle"
TranslateIdle == in_field = None /\ out_column = None
FieldsIdle == in_select_fields = <<>> /\ in_schema = <<>> /\ out_fields = None
MergeIdle ==
    /\ m_table = NoTable /\ m_staged = <<>> /\ m_key_fields = <<>>
    /\ m_raised = "none" /\ m_applied = 0 /\ m_before = NoTable /\ m_first = None
PipeIdle ==
    /\ args = [incremental |-> FALSE, key_fields |-> None, select_fields |-> <<>>]
    /\ srcDb = <<>> /\ tgtDb = <<>> /\ s3 = <<>> /\ temp = {}
    /\ meta = None /\ clock = 0 /\ run = 0 /\ i = 0 /\ pc = "idle"
    /\ clone_ret = "pending" /\ src_cnt_captured = 0 /\ calls = <<>>
    /\ exc = "none" /\ prev = <<>>

(***************************************************************************)
(* check_tgt_count as a function of its two counts                         *)
(***************************************************************************)
MaxCount == 30
MaxSlack == 3
MaxThousands == 2
MaxBelow == 100
MaxAbove == 8

Min(a, b) == IF a < b THEN a ELSE b

\* source counts below 2^31, and for each the target counts around the
\* threshold
SmallSrcCounts == (0..MaxCount) \cup {100 * k : k \in 1..MaxCount}
                    \cup {1000 * k : k \in 1..MaxThousands}
SmallTgtCounts(s) == {s - d : d \in (-1)..Min(s, (s \div 100) + MaxSlack)}

\* source counts around 2^53 = 9007199254740992, the largest range of
\* integers a double holds exactly, with differences around a hundredth
TwoTo53 == BigPow2(DoubleMantissaBits)
HundredthOfTwoTo53 == BigAdd(BigMul(Big(90071992), Big(1000000)), Big(547409))
LargeSrcCounts == {BigSub(TwoTo53, Big(e)) : e \in 0..MaxBelow}
                    \cup {BigAdd(TwoTo53, Big(e)) : e \in 1..MaxAbove}
LargeDiffs == {BigAdd(HundredthOfTwoTo53, Big(j)) : j \in 0..MaxSlack}

CountInit ==
    /\ out_count_check = "called"
    /\ \/ \E s \in SmallSrcCounts : \E t \in SmallTgtCounts(s) :
            in_src_cnt = Big(s) /\ in_tgt_cnt = Big(t)
       \/ \E s \in LargeSrcCounts : \E d \in LargeDiffs :
            in_src_cnt = s /\ in_tgt_cnt = BigSub(s, d)

\* check_tgt_count(src_cnt, tgt_table) with tgt_cnt rows in tgt_table
CheckTgtCountCall ==
    /\ out_count_check = "called"
    /\ out_count_check' = IF CountCheckRaises(in_src_cnt, in_tgt_cnt)
                          THEN "raised" ELSE "passed"
    /\ UNCHANGED <<in_src_cnt, in_tgt_cnt, translateVars, fieldsVars, mergeVars, pipeVars>>

InitCount == CountInit /\ TranslateIdle /\ FieldsIdle /\ MergeIdle /\ PipeIdle
NextCount == CheckTgtCountCall
SpecCount == InitCount /\ [][NextCount]_vars

(***************************************************************************)
(* The type translation as a function of one catalog row                   *)
(***************************************************************************)
SourceTypes ==
    rs_date_types \cup rs_char_types \cup rs_num_types \cup rs_smallint_types
    \cup rs_int_types \cup rs_bigint_types \cup rs_other_types
    \cup {"uuid", "uniqueidentifier", "xml"}

\* character_maximum_length: NULL, -1 (varchar(max)), and lengths around
\* the two clamps
CharLengths ==
    {None} \cup {Some(n) : n \in {-1, 0, 1, 10, DefaultVarcharSize,
                                  MaxVarcharSize, MaxVarcharSize + 1, 100000}}

ColumnNames == {<<"i","d">>, <<"p","a","r","t","i","t","i","o","n">>,
                <<"P","a","r","t","i","t","i","o","n">>}

TranslateInit ==
    /\ out_column = None
    /\ \E n \in ColumnNames, t \in SourceTypes, l \in CharLengths,
          p \in {None, Some(10)}, sc \in {None, Some(2)} :
          in_field = Some([name |-> n, type |-> t, len |-> l, prec |-> p, scale |-> sc])

\* one iteration of the loop of lines 205-254
TranslateCall ==
    /\ in_field # None /\ out_column = None
    /\ out_column' = Some(TranslateColumn(in_field[1]))
    /\ UNCHANGED <<in_field, countVars, fieldsVars, mergeVars, pipeVars>>

InitTranslate == TranslateInit /\ CountIdle /\ FieldsIdle /\ MergeIdle /\ PipeIdle
NextTranslate == TranslateCall
SpecTranslate == InitTranslate /\ [][NextTranslate]_vars

(***************************************************************************)
(* get_fields as a function of the selection and the schema                *)
(***************************************************************************)
MaxSchemaLen == 2
MaxSelectLen == 2

FieldNames == {<<"i","d">>, <<"I","D">>, <<"I","d">>, <<"i">>, <<"n">>, <<"N">>}
OverrideNames == {<<"x">>}

Column(n) == [name |-> n, type |-> "int", len |-> None, prec |-> Some(10), scale |-> Some(0)]

SeqsUpTo(S, n) == UNION {[1..k -> S] : k \in 0..n}

\* a table has no two columns of the same name
Schemas == {sc \in SeqsUpTo({Column(n) : n \in FieldNames}, MaxSchemaLen) :
              \A a, b \in 1..Len(sc) : a # b => sc[a].name # sc[b].name}

PlainEntry(n) == [py |-> "str", s |-> n, t |-> <<>>]
PairEntry(n, o) == [py |-> "tuple", s |-> <<>>, t |-> <<n, o>>]

SelectEntries == {PlainEntry(n) : n \in FieldNames}
                   \cup {PairEntry(n, o) : n \in FieldNames, o \in OverrideNames}

FieldsInit ==
    /\ out_fields = None
    /\ in_schema \in Schemas
    /\ in_select_fields \in SeqsUpTo(SelectEntries, MaxSelectLen)

GetFieldsCall ==
    /\ out_fields = None
    /\ out_fields' = Some(get_fields(in_select_fields, in_schema))
    /\ UNCHANGED <<in_select_fields, in_schema, countVars, translateVars, mergeVars, pipeVars>>

InitFields == FieldsInit /\ CountIdle /\ TranslateIdle /\ MergeIdle /\ PipeIdle
NextFields == GetFieldsCall
SpecFields == InitFields /\ [][NextFields]_vars

(***************************************************************************)
(* s3_to_redshift with incremental=True as a function of the target table, *)
(* the staged file and key_fields, called once and then replayed           *)
(***************************************************************************)
MaxStaged == 2
MaxReplays == 2

KeyColumn1 == <<"k","1">>
KeyColumn2 == <<"k","2">>
ValueColumn == <<"v">>
MergeCols ==
    << [column_name |-> KeyColumn1, data_type |-> DataType("integer", None, None), src |-> Some(KeyColumn1)],
       [column_name |-> KeyColumn2, data_type |-> DataType("integer", None, None), src |-> Some(KeyColumn2)],
       [column_name |-> ValueColumn, data_type |-> DataType("varchar", Some(10), None), src |-> Some(ValueColumn)] >>

\* rows the target may hold before the load: five distinct keys, a row with
\* a NULL key field and a second row of key (1, 1)
ExistingRows ==
    << <<Some(Text("1")), Some(Text("1")), Some(Text("old"))>>,
       <<Some(Text("1")), Some(Text("2")), Some(Text("old"))>>,
       <<Some(Text("2")), Some(Text("1")), Some(Text("old"))>>,
       <<Some(Text("2")), Some(Text("2")), Some(Text("old"))>>,
       <<Some(Text("3")), Some(Text("1")), Some(Text("old"))>>,
       <<None, Some(Text("1")), Some(Text("old"))>>,
       <<Some(Text("1")), Some(Text("1")), Some(Text("older"))>> >>

\* the rows of a sequence at the positions in S, in order
RECURSIVE Pick(_, _, _)
Pick(rows, S, k) ==
    IF k > Len(rows) THEN <<>>
    ELSE (IF k \in S THEN <<rows[k]>> ELSE <<>>) \o Pick(rows, S, k + 1)

\* lines of the staged file
StagedLines ==
    { <<Text("1"), Text("1"), Text("new")>>,
      <<Text("2"), Text("2"), Text("new")>>,
      <<Text("1"), Text("2"), Text("new")>>,
      <<Text("3"), Text("2"), Text("new")>>,
      <<Text("None"), Text("1"), Text("new")>>,
      <<Text("1"), Text("1"), Text("newer")>> }

MergeInit ==
    /\ \E S \in SUBSET (1..Len(ExistingRows)) :
          m_table = [exists |-> TRUE, cols |-> MergeCols, rows |-> Pick(ExistingRows, S, 1)]
    /\ m_staged \in SeqsUpTo(StagedLines, MaxStaged)
    /\ m_key_fields \in {<<KeyColumn1>>, <<KeyColumn1, KeyColumn2>>}
    /\ m_raised = "none" /\ m_applied = 0 /\ m_before = NoTable /\ m_first = None

\* s3_to_redshift(tgt_table, s3_path, incremental=True, key_fields=...)
MergeCall ==
    /\ m_table.exists /\ m_raised = "none" /\ m_applied < MaxReplays
    /\ \E env \in LoadOutcomes :
          LET out == s3_to_redshift(m_table, Some(m_staged), TRUE, Some(m_key_fields), env)
          IN /\ m_table' = out.table
             /\ m_raised' = out.raised
             /\ m_first' = IF m_applied = 0 /\ out.raised = "none"
                           THEN Some(out.table.rows) ELSE m_first
    /\ m_before' = m_table
    /\ m_applied' = m_applied + 1
    /\ UNCHANGED <<m_staged, m_key_fields, countVars, translateVars, fieldsVars, pipeVars>>

InitMerge == MergeInit /\ CountIdle /\ TranslateIdle /\ FieldsIdle /\ PipeIdle
NextMerge == MergeCall
SpecMerge == InitMerge /\ [][NextMerge]_vars

(***************************************************************************)
(* The program: __main__ runs stage_to_redshift on each table pair         *)
(***************************************************************************)
NTables == 2
MaxRuns == 2
MaxSrcRows == 2
Tables == 1..NTables

IdColumn == <<"I","d">>
NameColumn == <<"n">>
IdField == [name |-> IdColumn, type |-> "int", len |-> None, prec |-> Some(10), scale |-> Some(0)]
NameField == [name |-> NameColumn, type |-> "varchar", len |-> Some(10), prec |-> None, scale |-> None]
NoteField == [name |-> NameColumn, type |-> "text", len |-> None, prec |-> None, scale |-> None]

SourceRows == { <<PyStr("1"), PyStr("a\tb")>>, <<PyNone, PyBool(TRUE)>> }

\* a source table: whether it exists, whether the catalog lists its columns
\* under the schema name get_source_table_schema looks up ('public' for a
\* table name without a dot), its columns and its rows
SourceTable(e, v, c, r) == [exists |-> e, visible |-> v, columns |-> c, rows |-> r]

SourceTables ==
    {SourceTable(FALSE, FALSE, <<>>, <<>>)}
    \cup {SourceTable(TRUE, FALSE, <<IdField, NameField>>, <<>>)}
    \cup {SourceTable(TRUE, TRUE, <<IdField, NoteField>>, <<>>)}
    \cup {SourceTable(TRUE, TRUE, <<IdField, NameField>>, r) :
              r \in SeqsUpTo(SourceRows, MaxSrcRows)}

\* the tables a later batch position may name
LaterSourceTables ==
    {SourceTable(TRUE, TRUE, <<IdField, NameField>>, <<<<PyStr("1"), PyStr("a\tb")>>>>)}

\* lines 123-149: the rows of information_schema.columns
Catalog(src) == IF src.exists /\ src.visible THEN src.columns ELSE <<>>

\* lines 256-260
LineageColumns ==
    << [column_name |-> <<"etl_source_system_cd">>, data_type |-> DataType("varchar", Some(50), None), src |-> None],
       [column_name |-> <<"etl_row_create_dts">>, data_type |-> DataType("timestamp", None, None), src |-> None],
       [column_name |-> <<"etl_row_update_dts">>, data_type |-> DataType("timestamp", None, None), src |-> None],
       [column_name |-> <<"etl_run_id">>, data_type |-> DataType("bigint", None, None), src |-> None] >>
NLineage == Len(LineageColumns)

\* lines 205-260: the columns of create_sql.  schema is the result of
\* get_fields and src_names the source columns its entries came from.
CreatedColumns(schema, src_names) ==
    [k \in 1..Len(schema) |->
        [column_name |-> TranslateColumn(schema[k]).column_name,
         data_type |-> TranslateColumn(schema[k]).data_type,
         src |-> Some(src_names[k])]] \o LineageColumns

TranslationRaises(schema) == \E k \in 1..Len(schema) : TranslateColumn(schema[k]).raised

\* a table left in the warehouse by an earlier run of the program
StaleRow == << Some(Text("0")), Some(Text("z")), Some(Text("")),
               Some(Stamp("dts", 0)), Some(Stamp("dts", 0)), Some(Stamp("run", 0)) >>
StaleTable ==
    [exists |-> TRUE,
     cols |-> CreatedColumns(<<IdField, NameField>>, <<IdColumn, NameColumn>>),
     rows |-> <<StaleRow>>]

SelectFieldsArgs ==
    { <<>>,
      <<PlainEntry(<<"i","d">>)>>,
      <<PairEntry(<<"i","d">>, <<"k">>), PlainEntry(<<"n">>)>>,
      <<PlainEntry(<<"z">>)>> }

KeyFieldsArgs == {None, Some(<<IdColumn>>)}

PipeInit ==
    /\ \E inc \in BOOLEAN, kf \in KeyFieldsArgs, sf \in SelectFieldsArgs :
          args = [incremental |-> inc, key_fields |-> kf, select_fields |-> sf]
    /\ \E first \in SourceTables, rest \in [2..NTables -> LaterSourceTables] :
          srcDb = [t \in Tables |-> IF t = 1 THEN first ELSE rest[t]]
    /\ \E first \in {NoTable, StaleTable} :
          tgtDb = [t \in Tables |-> IF t = 1 THEN first ELSE NoTable]
    /\ s3 = [t \in Tables |-> None]
    /\ temp = {}
    /\ meta = None /\ clock = 1 /\ run = 0
    /\ i = 1 /\ pc = "start"
    /\ clone_ret = "pending" /\ src_cnt_captured = 0
    /\ calls = <<>> /\ exc = "none"
    /\ prev = [t \in Tables |-> None]

\* a variant of the uncaught exception: the step ends and stage_to_redshift
\* returns as if it had succeeded
RaiseSuppressed(e) == exc' = e /\ pc' = "end"

\* an exception no one catches: it leaves stage_to_redshift and ends the program
Raise(e) == exc' = e /\ pc' = "crashed"

\* rSqoop(...).init() (lines 28-91, 658): the program is started, for the
\* first time or again after it ended
Construct ==
    /\ pc \in {"start", "exit", "crashed"} /\ run < MaxRuns
    /\ run' = run + 1
    /\ \E now \in {clock, clock + 1} :
          /\ clock' = now
          /\ meta' = Some([etl_run_id |-> now, etl_date |-> now])
    /\ i' = 1 /\ pc' = "main" /\ exc' = "none"
    /\ clone_ret' = "pending" /\ src_cnt_captured' = 0 /\ calls' = <<>>
    /\ UNCHANGED <<args, srcDb, tgtDb, s3, temp, prev>>
    /\ UNCHANGED <<countVars, translateVars, fieldsVars, mergeVars>>

\* lines 660-673 and 608: the loop of __main__ enters stage_to_redshift
MainLoop ==
    /\ pc = "main"
    /\ IF i <= NTables
       THEN pc' = "clone" /\ calls' = <<>> /\ clone_ret' = "pending"
       ELSE pc' = "exit" /\ UNCHANGED <<calls, clone_ret>>
    /\ UNCHANGED <<args, srcDb, tgtDb, s3, temp, meta, clock, run, i,
                   src_cnt_captured, exc, prev>>
    /\ UNCHANGED <<countVars, translateVars, fieldsVars, mergeVars>>

\* the source column names behind the entries of get_fields' result
FieldSources(select_fields, src_schema) ==
    IF select_fields # <<>>
    THEN get_select_fields(src_schema, select_fields)
    ELSE [k \in 1..Len(src_schema) |-> src_schema[k].name]

\* clone_staging_table (lines 165-278), step 1 of stage_to_redshift
CloneStagingTable ==
    /\ pc = "clone"
    /\ LET src_schema == Catalog(srcDb[i])
           schema == get_fields(args.select_fields, src_schema)
           lookups == <<"catalog_query", "table_exists">>
       IN IF Len(schema) = 0
          THEN /\ clone_ret' = "noop" /\ pc' = "count"
               /\ calls' = calls \o lookups \o <<"log_source_not_found">>
               /\ UNCHANGED <<tgtDb, exc>>
          ELSE IF args.incremental /\ tgtDb[i].exists
          THEN /\ clone_ret' = "ok" /\ pc' = "count"
               /\ calls' = calls \o lookups
               /\ UNCHANGED <<tgtDb, exc>>
          ELSE IF TranslationRaises(schema)
          THEN /\ Raise("TypeError")
               /\ calls' = calls \o lookups
               /\ UNCHANGED <<tgtDb, clone_ret>>
          ELSE \E created \in BOOLEAN :
                 /\ clone_ret' = "ok" /\ pc' = "count"
                 /\ IF created
                    THEN /\ tgtDb' = [tgtDb EXCEPT ![i] =
                                [exists |-> TRUE,
                                 cols |-> CreatedColumns(schema,
                                            FieldSources(args.select_fields, src_schema)),
                                 rows |-> <<>>]]
                         /\ calls' = calls \o lookups \o <<"ddl", "ddl_commit">>
                    ELSE /\ tgtDb' = tgtDb
                         /\ calls' = calls \o lookups
                                \o <<"ddl_failed", "log_unable_to_create", "ddl_commit">>
                 /\ UNCHANGED exc
    /\ UNCHANGED <<args, srcDb, s3, temp, meta, clock, run, i, src_cnt_captured, prev>>
    /\ UNCHANGED <<countVars, translateVars, fieldsVars, mergeVars>>

\* get_src_count (lines 497-507), step 2; the query fails on a table that
\* does not exist, or for a reason of the connection
GetSrcCount ==
    /\ pc = "count"
    /\ \E ok \in BOOLEAN :
          IF ok /\ srcDb[i].exists
          THEN /\ src_cnt_captured' = Len(srcDb[i].rows)
               /\ calls' = calls \o <<"src_count">>
               /\ pc' = "extract" /\ UNCHANGED exc
          ELSE /\ calls' = calls \o <<"src_count_failed">>
               /\ Raise("source") /\ UNCHANGED src_cnt_captured
    /\ UNCHANGED <<args, srcDb, tgtDb, s3, temp, meta, clock, run, i, clone_ret, prev>>
    /\ UNCHANGED <<countVars, translateVars, fieldsVars, mergeVars>>

\* the position of the source column named x
RECURSIVE FieldIndexFrom(_, _, _)
FieldIndexFrom(columns, x, k) ==
    IF k > Len(columns) THEN 0
    ELSE IF columns[k].name = x THEN k
    ELSE FieldIndexFrom(columns, x, k + 1)

\* lines 317-322: the columns the query of source_to_s3 reads, '*' being
\* all of them
SelectList(src, select_fields) ==
    IF select_fields # <<>>
    THEN get_select_fields(Catalog(src), select_fields)
    ELSE [k \in 1..Len(src.columns) |-> src.columns[k].name]

\* "select <select_str> from <src_table>" cannot run: no such table, or an
\* empty select list
ReadFails(src, select_fields) ==
    ~src.exists \/ SelectList(src, select_fields) = <<>>

\* lines 325-347: the lines written to the temp file
StagedFile(src, select_fields, m) ==
    LET names == SelectList(src, select_fields)
    IN [r \in 1..Len(src.rows) |->
          StagedRow([k \in 1..Len(names) |->
                        src.rows[r][FieldIndexFrom(src.columns, names[k], 1)]],
                    MetaValues(m, ""))]

\* What can go wrong in one call of source_to_s3: nothing; the read of line
\* 325 raises before the temp file is opened; the read raises while the loop
\* of line 339 runs; a keep-alive query raises; the upload raises.
ExtractOutcomes == {"ok", "read_fails", "read_fails_in_loop", "keepalive_fails", "upload_fails"}

\* source_to_s3 (lines 280-368), step 3
SourceToS3 ==
    /\ pc = "extract"
    /\ \E env \in ExtractOutcomes :
          LET catalog == IF args.select_fields # <<>> THEN <<"catalog_query">> ELSE <<>>
              broken == ReadFails(srcDb[i], args.select_fields)
          IN IF broken \/ env \in {"read_fails", "read_fails_in_loop"}
             THEN /\ calls' = calls \o catalog \o <<"src_read_failed">>
                  /\ temp' = IF env = "read_fails_in_loop" THEN temp \cup {i} ELSE temp
                  /\ Raise("source") /\ UNCHANGED s3
             ELSE IF env = "keepalive_fails"
             THEN /\ calls' = calls \o catalog \o <<"src_read", "keepalive_failed">>
                  /\ temp' = temp \cup {i}
                  /\ Raise("keepalive") /\ UNCHANGED s3
             ELSE IF env = "upload_fails"
             THEN /\ calls' = calls \o catalog \o <<"src_read", "keepalive", "upload_failed">>
                  /\ temp' = temp \cup {i}
                  /\ Raise("upload") /\ UNCHANGED s3
             ELSE /\ calls' = calls \o catalog \o <<"src_read", "keepalive", "upload">>
                  /\ s3' = [s3 EXCEPT ![i] =
                              Some(StagedFile(srcDb[i], args.select_fields, meta[1]))]
                  /\ temp' = temp \ {i}
                  /\ pc' = "load" /\ UNCHANGED exc
    /\ UNCHANGED <<args, srcDb, tgtDb, meta, clock, run, i, clone_ret, src_cnt_captured, prev>>
    /\ UNCHANGED <<countVars, translateVars, fieldsVars, mergeVars>>

\* s3_to_redshift (lines 370-495), step 4
S3ToRedshift ==
    /\ pc = "load"
    /\ \E env \in LoadOutcomes :
          LET out == s3_to_redshift(tgtDb[i], s3[i], args.incremental, args.key_fields, env)
          IN /\ tgtDb' = [tgtDb EXCEPT ![i] = out.table]
             /\ calls' = calls \o out.events
             /\ IF out.raised = "none"
                THEN pc' = "check" /\ UNCHANGED exc
                ELSE Raise(out.raised)
    /\ UNCHANGED <<args, srcDb, s3, temp, meta, clock, run, i, clone_ret, src_cnt_captured, prev>>
    /\ UNCHANGED <<countVars, translateVars, fieldsVars, mergeVars>>

\* check_tgt_count (lines 509-533), step 5; the count query fails on a
\* table that does not exist, or for a reason of the connection
CheckTgtCount ==
    /\ pc = "check"
    /\ \E ok \in BOOLEAN :
          IF ~(ok /\ tgtDb[i].exists)
          THEN calls' = calls \o <<"tgt_count_failed">> /\ Raise("target")
          ELSE IF check_tgt_count_raises(src_cnt_captured, Len(tgtDb[i].rows))
          THEN calls' = calls \o <<"tgt_count", "log_failed_count_check">> /\ Raise("reconcile")
          ELSE /\ calls' = calls \o <<"tgt_count", "log_passed_count_check">>
               /\ pc' = "end" /\ UNCHANGED exc
    /\ UNCHANGED <<args, srcDb, tgtDb, s3, temp, meta, clock, run, i, clone_ret,
                   src_cnt_captured, prev>>
    /\ UNCHANGED <<countVars, translateVars, fieldsVars, mergeVars>>

\* line 639 and the next iteration of line 660: stage_to_redshift returns
StageReturn ==
    /\ pc = "end"
    /\ prev' = [prev EXCEPT ![i] = Some(tgtDb[i].rows)]
    /\ i' = i + 1 /\ pc' = "main"
    /\ UNCHANGED <<args, srcDb, tgtDb, s3, temp, meta, clock, run, clone_ret,
                   src_cnt_captured, calls, exc>>
    /\ UNCHANGED <<countVars, translateVars, fieldsVars, mergeVars>>

Init == PipeInit /\ CountIdle /\ TranslateIdle /\ FieldsIdle /\ MergeIdle

Next ==
    \/ Construct
    \/ MainLoop
    \/ CloneStagingTable
    \/ GetSrcCount
    \/ SourceToS3
    \/ S3ToRedshift
    \/ CheckTgtCount
    \/ StageReturn

Spec == Init /\ [][Next]_vars

(***************************************************************************)
(* Claims about check_tgt_count                                            *)
(***************************************************************************)
CountChecked == out_count_check \in {"passed", "raised"}

\* 100 * (source_count - target_count) > source_count, over the integers
IntegerTest(s, t) ==
    /\ BigCmp(s, t) > 0
    /\ BigCmp(BigMul(BigSub(s, t), Big(100)), s) > 0

\* C3 (as stated): check_tgt_count raises exactly when relative_diff exceeds
\* 0.01: for EVERY source_count > 0 the outcome equals the integer test
\* 100 * (source_count - target_count) > source_count.
C3_EveryCountMatchesIntegerTest ==
    (CountChecked /\ in_src_cnt # Big(0))
        => (out_count_check = "raised" <=> IntegerTest(in_src_cnt, in_tgt_cnt))

\* C3 (amended): for every source_count with 0 < source_count <= 2^53 the
\* outcome equals the integer test; source_count = 1000 passes with
\* target_count = 990 and fails with target_count = 989.
C3_CountsUpTo2To53MatchIntegerTest ==
    /\ (CountChecked /\ in_src_cnt # Big(0) /\ BigCmp(in_src_cnt, TwoTo53) <= 0)
          => (out_count_check = "raised" <=> IntegerTest(in_src_cnt, in_tgt_cnt))
    /\ (CountChecked /\ in_src_cnt = Big(1000) /\ in_tgt_cnt = Big(990))
          => out_count_check = "passed"
    /\ (CountChecked /\ in_src_cnt = Big(1000) /\ in_tgt_cnt = Big(989))
          => out_count_check = "raised"

\* C3 witness: the check has run on 1000 against 990, exactly at the threshold
C3_AtThresholdChecked ==
    /\ out_count_check = "passed"
    /\ in_src_cnt = Big(1000) /\ in_tgt_cnt = Big(990)

\* C4: with source_count = 0 the check passes when target_count = 0 and
\* raises whenever target_count is not 0.
C4_ZeroSourceFailsOnAnyTargetRow ==
    (CountChecked /\ in_src_cnt = Big(0))
        => (out_count_check = "raised" <=> in_tgt_cnt # Big(0))

(***************************************************************************)
(* Claims about the type translation                                       *)
(***************************************************************************)
CharFamily == {"char", "varchar", "character", "nchar", "bpchar",
               "character varying", "nvarchar", "text"}

\* the size the claim gives a declared length
ClaimedCharSize(len) ==
    IF len = None THEN DefaultVarcharSize
    ELSE IF len[1] < 0 THEN DefaultVarcharSize
    ELSE IF len[1] > MaxVarcharSize THEN MaxVarcharSize
    ELSE len[1]

\* C8: for every character-family column and every declared length, present
\* or absent, the translation does not fail and gives a size in [1, 65535]:
\* 2000 below 0, 65535 above 65535, the length itself otherwise, and
\* varchar(2000) for an absent length.
C8_CharSizeTotalAndClamped ==
    (out_column # None /\ in_field[1].type \in CharFamily)
        => /\ ~out_column[1].raised
           /\ out_column[1].data_type.p1 = Some(ClaimedCharSize(in_field[1].len))
           /\ out_column[1].data_type.p1[1] \in 1..MaxVarcharSize
           /\ in_field[1].len = None => out_column[1].data_type.base = "varchar"

(***************************************************************************)
(* Claims about get_fields                                                 *)
(***************************************************************************)
\* the source field name a selection entry names
EntryFieldName(e) == IF e.py = "str" THEN e.s ELSE e.t[1]

\* the entries that name column n ignoring case
EntriesNaming(select, n) ==
    SelectSeq(select, LAMBDA e : Lower(EntryFieldName(e)) = Lower(n))

RECURSIVE ClaimedFields(_, _)
ClaimedFields(select, sch) ==
    IF sch = <<>> THEN <<>>
    ELSE LET col == Head(sch)
             named == EntriesNaming(select, col.name)
             rest == ClaimedFields(select, Tail(sch))
         IN IF named = <<>> THEN rest
            ELSE IF named[1].py = "tuple"
                 THEN <<[col EXCEPT !.name = named[1].t[2]]>> \o rest
                 ELSE <<col>> \o rest

\* C9: for every schema and every non-empty selection a source column is kept
\* exactly when some entry's field name equals the column name ignoring case,
\* kept columns stay in source order, and a kept column takes the override of
\* its entry when the entry carries one and otherwise keeps its name.
C9_SelectionMatchesIgnoringCase ==
    (out_fields # None /\ in_select_fields # <<>>)
        => out_fields[1] = ClaimedFields(in_select_fields, in_schema)

(***************************************************************************)
(* Claims about the incremental merge                                      *)
(***************************************************************************)
Range(f) == {f[k] : k \in DOMAIN f}

\* the number of copies of row r in a table's rows
Copies(rows, r) == Cardinality({k \in 1..Len(rows) : rows[k] = r})

SameRows(a, b) == \A r \in Range(a) \cup Range(b) : Copies(a, r) = Copies(b, r)

\* the position of a key field in the rows of the merged table
KeyPosition(x) == IF x = KeyColumn1 THEN 1 ELSE 2

\* row r matches the staged row t on all key fields (an equi-join: a NULL
\* key field matches nothing)
MatchesOnAllKeys(r, t) ==
    \A k \in 1..Len(m_key_fields) :
        LET p == KeyPosition(m_key_fields[k])
        IN r[p] # None /\ t[p] # None /\ r[p] = t[p]

\* the rows of the temporary table: the staged lines as COPY loads them
TmpRows == LoadRows(m_staged)

MergeReturned == m_applied >= 1 /\ m_raised = "none"

\* five existing rows of distinct keys, two staged rows of distinct keys,
\* each matching an existing row
TwoOfFiveOverlap ==
    /\ Len(m_before.rows) = 5 /\ Len(TmpRows) = 2
    /\ \A a, b \in 1..5 : a # b => ~MatchesOnAllKeys(m_before.rows[a], m_before.rows[b])
    /\ \A a \in 1..5 : MatchesOnAllKeys(m_before.rows[a], m_before.rows[a])
    /\ ~MatchesOnAllKeys(TmpRows[1], TmpRows[2])
    /\ \A k \in 1..2 : \E a \in 1..5 : MatchesOnAllKeys(m_before.rows[a], TmpRows[k])

\* C5: after a successful incremental load the target holds exactly every
\* pre-existing row that matches no staged row on all key fields, unchanged,
\* plus every staged row; every pre-existing row that matches a staged row on
\* all key fields is gone.  Two staged rows overlapping 2 of 5 existing keys
\* leave exactly 5 rows, the staged values among them.
C5_MergeReplacesMatchedKeys ==
    MergeReturned =>
        /\ \A r \in Range(m_before.rows) \cup Range(m_table.rows) \cup Range(TmpRows) :
              Copies(m_table.rows, r)
                 = Copies(TmpRows, r)
                   + (IF \E k \in 1..Len(TmpRows) : MatchesOnAllKeys(r, TmpRows[k])
                      THEN 0 ELSE Copies(m_before.rows, r))
        /\ TwoOfFiveOverlap =>
              /\ Len(m_table.rows) = 5
              /\ \A k \in 1..2 : Copies(m_table.rows, TmpRows[k]) = 1

\* C5 witness: a first load of two staged rows over 2 of 5 existing keys
C5_TwoOfFiveMerged == m_applied = 1 /\ m_raised = "none" /\ TwoOfFiveOverlap

\* C7: applying the same incremental load a second time leaves the target
\* with the same multiset of rows as after the first application, for every
\* staged set, including rows with NULL key fields and repeated keys.
C7_ReplayLeavesSameRows ==
    (m_applied = 2 /\ m_raised = "none" /\ m_first # None)
        => SameRows(m_table.rows, m_first[1])

(***************************************************************************)
(* Claims about stage_to_redshift                                          *)
(***************************************************************************)
Issued(e) == \E k \in 1..Len(calls) : calls[k] = e

\* e is in the trace and d comes before it
Preceded(e, d) ==
    \A k \in 1..Len(calls) : calls[k] = e => \E j \in 1..(k - 1) : calls[j] = d

\* the calls of the steps after clone, whether they succeeded or not
StepCalls == {"src_count", "src_count_failed", "src_read", "src_read_failed",
              "keepalive", "keepalive_failed", "upload", "upload_failed",
              "load_sql", "load_sql_failed", "grant", "grant_failed",
              "tgt_count", "tgt_count_failed"}

\* every call that leaves the process
RemoteCalls == StepCalls \cup {"catalog_query", "table_exists", "ddl", "ddl_failed",
                               "ddl_commit", "grant_commit", "commit"}

\* C1: when clone_staging_table signals the no-op, no later step is performed
\* for that table (no source count, extraction, upload, load or
\* reconciliation), no exception is raised, and the batch goes on.
C1_NoopSkipsRemainingSteps ==
    clone_ret = "noop" =>
        /\ \A k \in 1..Len(calls) : calls[k] \notin StepCalls
        /\ exc = "none"
        /\ pc \in {"count", "main", "clone", "exit"}

\* C2: when the configuration error (incremental without key fields) is
\* raised, no remote call has been issued for that table.
C2_ConfigErrorBeforeAnyRemoteCall ==
    exc = "config" => \A k \in 1..Len(calls) : calls[k] \notin RemoteCalls

\* the lineage cells of a warehouse row taken off
DataCells(row) == SubSeq(row, 1, Len(row) - NLineage)
DataRows(rows) == [k \in 1..Len(rows) |-> DataCells(rows[k])]

\* stage_to_redshift has just returned for a table it had completed before
FullRefreshReplayed == pc = "end" /\ ~args.incremental /\ prev[i] # None

\* C6 (as stated): a second full-refresh run over unchanged source data leaves
\* the target with the same rows as the first.
C6_ReplayLeavesSameRows ==
    FullRefreshReplayed => SameRows(tgtDb[i].rows, prev[i][1])

\* C6 (amended): a second full-refresh run over unchanged source data leaves
\* the target with the same row count and the same source-derived values as
\* the first, every row carrying the lineage values of the run that loaded
\* it: no row of the first run is kept alongside the rows of the second.
C6_ReplayLeavesSameDataRows ==
    FullRefreshReplayed =>
        /\ Len(tgtDb[i].rows) = Len(prev[i][1])
        /\ SameRows(DataRows(tgtDb[i].rows), DataRows(prev[i][1]))
        /\ \A k \in 1..Len(tgtDb[i].rows) :
              SubSeq(tgtDb[i].rows[k], Len(tgtDb[i].rows[k]) - NLineage + 1,
                     Len(tgtDb[i].rows[k]))
                 = LoadRow(MetaValues(meta[1], ""))

\* C6 witness: the second run of the program has reloaded a table that has rows
C6_SecondRunReloaded ==
    FullRefreshReplayed /\ run = 2 /\ Len(tgtDb[i].rows) = MaxSrcRows

\* C10: a failure of the load statement is logged and re-raised, and then
\* neither the grant nor the final commit runs; when s3_to_redshift returns,
\* the load statement has run and the grants have been applied after it; a
\* grant is never issued for a load whose statement failed.
C10_GrantOnlyAfterSuccessfulLoad ==
    /\ Issued("load_sql_failed") =>
          /\ exc = "load" /\ pc = "crashed"
          /\ Issued("log_offending_sql")
          /\ ~Issued("grant") /\ ~Issued("grant_failed")
          /\ ~Issued("grant_commit") /\ ~Issued("commit")
    /\ pc \in {"check", "end"} =>
          /\ Issued("load_sql") /\ Issued("grant")
          /\ Preceded("commit", "grant")
    /\ Preceded("grant", "load_sql")
    /\ Preceded("grant_failed", "load_sql")

\* C10 witness: a load statement has failed and the exception has left
\* s3_to_redshift
C10_LoadFailureRaised == Issued("load_sql_failed") /\ exc = "load"

\* the schema clone_staging_table works on (line 188) in the current state
CloneSchema == get_fields(args.select_fields, Catalog(srcDb[i]))

\* the table the drop/create statement of lines 202-260 leaves
RecreatedTable ==
    [exists |-> TRUE,
     cols |-> CreatedColumns(CloneSchema,
                             FieldSources(args.select_fields, Catalog(srcDb[i]))),
     rows |-> <<>>]

DdlIssued(trace) ==
    \E k \in 1..Len(trace) : trace[k] \in {"ddl", "ddl_failed"}

\* C11: a call of clone_staging_table on a non-empty schema with
\* incremental=true and an existing target issues no DDL, leaves the target's
\* columns and rows as they were and returns the two names; in every other
\* case with a non-empty schema it issues the drop/create statement, and the
\* target is then the empty table of the translated columns followed by the
\* four lineage columns.
C11_IncrementalKeepsTargetElseRecreates ==
    [][ (pc = "clone" /\ Len(CloneSchema) > 0) =>
          IF args.incremental /\ tgtDb[i].exists
          THEN /\ tgtDb' = tgtDb
               /\ ~DdlIssued(calls')
               /\ clone_ret' = "ok" /\ pc' = "count"
          ELSE /\ DdlIssued(calls')
               /\ (\E k \in 1..Len(calls') : calls'[k] = "ddl") =>
                      tgtDb'[i] = RecreatedTable ]_vars

\* C12: once source_to_s3 has written the staged file (the source read has
\* completed), however the call ends (it returns after the upload, or a
\* keep-alive query or the upload raises), the local file temp/<key>.txt of
\* the table does not exist afterwards.
C12_NoLocalCopyLeft ==
    (Issued("src_read") /\ pc \in {"load", "check", "end", "crashed"}) =>
        i \notin temp

\* the step of stage_to_redshift a call belongs to: 1 clone, 2 source count,
\* 3 extract, 4 load, 5 reconcile; 0 for the catalog query, which both clone
\* and extract issue
StepOf(e) ==
    CASE e \in {"table_exists", "log_source_not_found", "ddl", "ddl_failed",
                "log_unable_to_create", "ddl_commit"} -> 1
      [] e \in {"src_count", "src_count_failed"} -> 2
      [] e \in {"src_read", "src_read_failed", "keepalive", "keepalive_failed",
                "upload", "upload_failed"} -> 3
      [] e \in {"load_sql", "load_sql_failed", "log_error", "log_offending_sql",
                "grant", "grant_failed", "grant_commit", "commit"} -> 4
      [] e \in {"tgt_count", "tgt_count_failed", "log_failed_count_check",
                "log_passed_count_check"} -> 5
      [] OTHER -> 0

\* the calls that end with an exception leaving the step
StepFailures == {"src_count_failed", "src_read_failed", "keepalive_failed",
                 "upload_failed", "load_sql_failed", "grant_failed",
                 "tgt_count_failed", "log_failed_count_check"}

\* the first call of each step after clone, successful or not
StepAttempts == { {"src_count", "src_count_failed"},
                  {"src_read", "src_read_failed"},
                  {"load_sql", "load_sql_failed"},
                  {"tgt_count", "tgt_count_failed"} }

\* C13: within one call of stage_to_redshift the calls are issued in the
\* order clone, source count, extract, load, reconcile; no step is attempted
\* twice; the source count is taken before the source rows are read; once a
\* step has failed no call of a later step is issued and the exception leaves
\* stage_to_redshift; a rejected drop/create statement is logged and does
\* not end the migration: clone returns the two names as on success, and a
\* later end of the migration by exception comes from a later step.
C13_StepsInOrderFailureAborts ==
    /\ \A k, j \in 1..Len(calls) :
          (k < j /\ StepOf(calls[k]) # 0 /\ StepOf(calls[j]) # 0) =>
              StepOf(calls[k]) <= StepOf(calls[j])
    /\ \A a \in StepAttempts : \A k, j \in 1..Len(calls) :
          (calls[k] \in a /\ calls[j] \in a) => k = j
    /\ Preceded("src_read", "src_count")
    /\ Preceded("src_read_failed", "src_count")
    /\ \A k \in 1..Len(calls) : calls[k] \in StepFailures =>
          /\ pc = "crashed" /\ exc # "none"
          /\ \A j \in (k + 1)..Len(calls) : StepOf(calls[j]) = StepOf(calls[k])
    /\ exc # "none" => pc = "crashed"
    /\ pc \in {"check", "end"} =>
          /\ Issued("src_count") /\ Issued("src_read") /\ Issued("upload")
          /\ Issued("load_sql")
    /\ pc = "end" => Issued("tgt_count")
    /\ Issued("ddl_failed") =>
          /\ Issued("log_unable_to_create")
          /\ clone_ret = "ok"
          /\ pc = "crashed" =>
                \/ exc = "config"
                \/ \E k \in 1..Len(calls) : calls[k] \in StepFailures

\* C13 witness: the drop/create statement was rejected, the steps went on and
\* the load then failed, which ended the migration
C13_CreateFailureThenLoadFailure ==
    /\ Issued("ddl_failed") /\ Issued("upload") /\ Issued("load_sql_failed")
    /\ pc = "crashed" /\ exc = "load"

\* the source column the k-th field of the query of source_to_s3 reads
ProjectedColumn(k) ==
    LET names == SelectList(srcDb[i], args.select_fields)
    IN srcDb[i].columns[FieldIndexFrom(srcDb[i].columns, names[k], 1)]

\* C14: when clone_staging_table has created the target table and
\* source_to_s3 of the same stage_to_redshift call has returned, the k-th
\* created column comes from the source column the k-th projected field
\* reads (same source name, and the type is the translation of that
\* column's type); the table has as many columns as every staged line has
\* fields; the last four columns are etl_source_system_cd,
\* etl_row_create_dts, etl_row_update_dts, etl_run_id in that order, and the
\* last four fields of every line are the source system code, twice the same
\* timestamp, and the run id.
C14_ColumnsMatchStagedFields ==
    (pc = "load" /\ Issued("ddl") /\ s3[i] # None) =>
        LET cols == tgtDb[i].cols
            file == s3[i][1]
            names == SelectList(srcDb[i], args.select_fields)
            n == Len(cols)
        IN /\ n = Len(names) + NLineage
           /\ \A k \in 1..Len(names) :
                 /\ cols[k].src = Some(names[k])
                 /\ cols[k].data_type = TranslateColumn(ProjectedColumn(k)).data_type
           /\ [k \in 1..NLineage |-> cols[n - NLineage + k].column_name] =
                 << <<"etl_source_system_cd">>, <<"etl_row_create_dts">>,
                    <<"etl_row_update_dts">>, <<"etl_run_id">> >>
           /\ \A r \in 1..Len(file) :
                 /\ Len(file[r]) = n
                 /\ \A k \in 1..Len(names) :
                       file[r][k] = NormalizeCell(
                           srcDb[i].rows[r][FieldIndexFrom(srcDb[i].columns,
                                                           cols[k].src[1], 1)])
                 /\ file[r][n - 3] = Text("")
                 /\ file[r][n - 2] = file[r][n - 1]
                 /\ file[r][n - 2] = Stamp("dts", meta[1].etl_date)
                 /\ file[r][n] = Stamp("run", meta[1].etl_run_id)

\* C14 witness: a table created from a selection of one of the two source
\* columns, and a staged file of at least one line
C14_SelectionCreatedAndStaged ==
    /\ pc = "load" /\ Issued("ddl") /\ s3[i] # None
    /\ args.select_fields # <<>>
    /\ Len(srcDb[i].columns) = 2
    /\ Len(tgtDb[i].cols) = 1 + NLineage
    /\ Len(s3[i][1]) >= 1

====
